---- MODULE Spec2Model ----
(***************************************************************************)
(* Model of two components of the nitro repository:                        *)
(*   - ValueStackLib (Solidity): the commitment hash and the stack         *)
(*     primitives over a partially revealed value stack;                   *)
(*   - daprovider.Reader (Go): the DAS-backed and the blob-backed          *)
(*     RecoverPayloadFromBatch adapters.                                   *)
(* Option values are sets: {} is "absent" (nil / nothing returned) and     *)
(* {x} is "present x".                                                     *)
(***************************************************************************)
EXTENDS Integers, Sequences, FiniteSets, TLC

VARIABLES
    \* ---- ValueStackLib: one on-chain verification call ----
    stack,        \* the in-memory ValueStack [proved, remainingHash]
    status,       \* "ok" while the call runs, "reverted" once it aborted
    op,           \* the last library function applied
    arg,          \* its argument (option)
    ret,          \* what it returned (option; {} when nothing was returned)
    pre,          \* the stack before the last function was applied
    prev,         \* op, arg, ret and pre of the function applied before it
    \* ---- daprovider.Reader: the last RecoverPayloadFromBatch call ----
    adapter,          \* "none", "blob" or "das"
    sequencerMsg,     \* the sequencerMsg argument
    batchBlockHash,   \* the batchBlockHash argument
    preimages,        \* the caller's preimages map, as a set of entries
    preimagesBefore,  \* the map before the last call
    getBlobsCalls,    \* the GetBlobs invocations of the last call
    decodeCalls,      \* the DecodeBlobs invocations of the last call
    result            \* how the last call ended

stackVars  == <<stack, status, op, arg, ret, pre, prev>>
readerVars == <<adapter, sequencerMsg, batchBlockHash, preimages,
                preimagesBefore, getBlobsCalls, decodeCalls, result>>
vars       == <<stackVars, readerVars>>

None    == {}
Some(x) == {x}

(***************************************************************************)
(* Bounds of the model.                                                    *)
(***************************************************************************)
MaxValue == 2      \* Values are 1..MaxValue
MaxDepth == 3      \* push is explored up to this many revealed elements
MaxBound == 2      \* hasProvenDepthLessThan is called with 0..MaxBound
MaxBlobs == 2      \* a blob message carries up to this many versioned hashes

(***************************************************************************)
(* Hashes.  keccak256 is modelled as an ideal hash: the hash of a packed   *)
(* encoding is named by that encoding, so two hashes are equal exactly     *)
(* when their preimages are.  bytes32 constants are one-element tuples.    *)
(***************************************************************************)
Bytes32(n) == <<n>>

encodePacked(tag, a, b) == <<tag, a, b>>

keccak256(packed) == <<"keccak256">> \o packed

\* Value.hash() of the sibling Value library
ValueHash(v) == <<"Value:", v>>

Values == 1..MaxValue

(***************************************************************************)
(* ValueArrayLib: the sibling array library the stack delegates to.        *)
(* An operation that may revert yields [reverted, ret, arr].               *)
(***************************************************************************)
ValueArray_length(arr) == Len(arr)

ValueArray_get(arr, index) ==
    IF index < Len(arr)
    THEN [reverted |-> FALSE, ret |-> Some(arr[index + 1])]
    ELSE [reverted |-> TRUE, ret |-> None]

ValueArray_pop(arr) ==
    IF Len(arr) = 0
    THEN [reverted |-> TRUE, ret |-> None, arr |-> arr]
    ELSE [reverted |-> FALSE, ret |-> Some(arr[Len(arr)]),
          arr |-> SubSeq(arr, 1, Len(arr) - 1)]

ValueArray_push(arr, val) == Append(arr, val)

(***************************************************************************)
(* ValueStackLib                                                           *)
(***************************************************************************)
RECURSIVE hashLoop(_, _, _, _)
\* the for loop of hash: i runs upwards from its current value to len - 1
hashLoop(stk, i, len, h) ==
    IF i < len
    THEN hashLoop(stk, i + 1, len,
                  keccak256(encodePacked("Value stack:",
                                         ValueHash(stk.proved[i + 1]), h)))
    ELSE h

RECURSIVE hashLoopDown(_, _, _)
hashLoopDown(stk, i, h) ==
    IF i > 0
    THEN hashLoopDown(stk, i - 1,
                      keccak256(encodePacked("Value stack:",
                                             ValueHash(stk.proved[i]), h)))
    ELSE h

\* mutant of hash: the loop walks proved from the top down
hash_descending(stk) ==
    hashLoopDown(stk, ValueArray_length(stk.proved), stk.remainingHash)

\* mutant of hash: the accumulator starts at zero instead of remainingHash
hash_noRemainder(stk) ==
    hashLoop(stk, 0, ValueArray_length(stk.proved), Bytes32(0))

hash(stk) ==
    LET h   == stk.remainingHash
        len == ValueArray_length(stk.proved)
    IN  hashLoop(stk, 0, len, h)

\* mutant of peek: an empty proved yields a zero Value instead of aborting
peek_sentinel(stk) ==
    LET len == ValueArray_length(stk.proved)
    IN  IF len = 0
        THEN [reverted |-> FALSE, ret |-> Some(0)]
        ELSE ValueArray_get(stk.proved, len - 1)

\* len - 1 is checked uint256 arithmetic (pragma ^0.8.0): it aborts on 0
peek(stk) ==
    LET len == ValueArray_length(stk.proved)
    IN  IF len - 1 < 0
        THEN [reverted |-> TRUE, ret |-> None]
        ELSE ValueArray_get(stk.proved, len - 1)

\* mutant of pop: returns the top element but leaves it on the stack
pop_keep(stk) ==
    LET r == ValueArray_pop(stk.proved)
    IN  [reverted |-> r.reverted, ret |-> r.ret, stack |-> stk]

pop(stk) ==
    LET r == ValueArray_pop(stk.proved)
    IN  [reverted |-> r.reverted, ret |-> r.ret,
         stack |-> [stk EXCEPT !.proved = r.arr]]

push(stk, val) == [stk EXCEPT !.proved = ValueArray_push(stk.proved, val)]

isEmpty(stk) ==
    ValueArray_length(stk.proved) = 0 /\ stk.remainingHash = Bytes32(0)

\* mutant of hasProvenDepthLessThan: the remainder is not looked at
hasProvenDepthLessThan_noRemainder(stk, bound) ==
    ValueArray_length(stk.proved) < bound

hasProvenDepthLessThan(stk, bound) ==
    ValueArray_length(stk.proved) < bound /\ stk.remainingHash = Bytes32(0)

(***************************************************************************)
(* The stacks a verification call may be handed: any revealed portion up   *)
(* to MaxDepth, over a zero, an opaque or a hash-chain remainder.          *)
(***************************************************************************)
SeqsUpTo(S, n) == UNION {[1..k -> S] : k \in 0..n}

RemainingHashes ==
    {Bytes32(0), Bytes32(1)}
        \cup {keccak256(encodePacked("Value stack:", ValueHash(v), r)) :
                 v \in Values, r \in {Bytes32(0), Bytes32(1)}}

InitialStacks ==
    {[proved |-> p, remainingHash |-> r] :
        p \in SeqsUpTo(Values, MaxDepth - 1), r \in RemainingHashes}

NoCall == [op |-> "none", arg |-> None, ret |-> None,
           pre |-> [proved |-> <<>>, remainingHash |-> Bytes32(0)]]

InitStackVars ==
    /\ stack \in InitialStacks
    /\ status = "ok"
    /\ op = "none"
    /\ arg = None
    /\ ret = None
    /\ pre = stack
    /\ prev = NoCall

\* bookkeeping shared by the library actions
Applied(name, a) ==
    /\ op' = name
    /\ arg' = a
    /\ pre' = stack
    /\ prev' = [op |-> op, arg |-> arg, ret |-> ret, pre |-> pre]

Hash ==
    /\ status = "ok"
    /\ Applied("hash", None)
    /\ ret' = Some(hash(stack))
    /\ UNCHANGED <<stack, status>>

\* a revert aborts the enclosing call and discards what it did to memory
Peek ==
    /\ status = "ok"
    /\ Applied("peek", None)
    /\ LET r == peek(stack)
       IN  /\ ret' = r.ret
           /\ status' = IF r.reverted THEN "reverted" ELSE "ok"
    /\ UNCHANGED stack

Pop ==
    /\ status = "ok"
    /\ Applied("pop", None)
    /\ LET r == pop(stack)
       IN  /\ ret' = r.ret
           /\ status' = IF r.reverted THEN "reverted" ELSE "ok"
           /\ stack' = IF r.reverted THEN stack ELSE r.stack

Push ==
    /\ status = "ok"
    /\ Len(stack.proved) < MaxDepth
    /\ \E val \in Values :
          /\ Applied("push", Some(val))
          /\ stack' = push(stack, val)
    /\ ret' = None
    /\ UNCHANGED status

IsEmpty ==
    /\ status = "ok"
    /\ Applied("isEmpty", None)
    /\ ret' = Some(isEmpty(stack))
    /\ UNCHANGED <<stack, status>>

HasProvenDepthLessThan ==
    /\ status = "ok"
    /\ \E bound \in 0..MaxBound :
          /\ Applied("hasProvenDepthLessThan", Some(bound))
          /\ ret' = Some(hasProvenDepthLessThan(stack, bound))
    /\ UNCHANGED <<stack, status>>

(***************************************************************************)
(* daprovider.Reader                                                       *)
(***************************************************************************)
HeaderLen == 41    \* sequencerMsg[41:]
HashLen   == 32    \* len(common.Hash{})

FormatErrText == "blob batch data is not a list of hashes as expected"
GetBlobsErrText == "failed to get blobs: %w"

\* the 32-byte pattern Hp
Pattern(p) == [i \in 1..HashLen |-> (16 * p + i) % 256]

\* a blob message is built from the patterns H1 and H2
PatternIds == {1, 2}

Fill(n, b) == [i \in 1..n |-> b]

RECURSIVE Concat(_)
Concat(ss) == IF ss = <<>> THEN <<>> ELSE Head(ss) \o Concat(Tail(ss))

HeaderFills == {0, 255}
TailLens    == {0, 10}
ShortLens   == {0, 40}

\* sequencer messages: a 41-byte header, up to MaxBlobs 32-byte patterns and
\* possibly 10 stray bytes; and messages too short to hold the header
Messages ==
    {Fill(HeaderLen, f) \o Concat([j \in 1..Len(ps) |-> Pattern(ps[j])])
                        \o Fill(t, 170) :
        f \in HeaderFills, ps \in SeqsUpTo(PatternIds, MaxBlobs),
        t \in TailLens}
    \cup {Fill(n, f) : n \in ShortLens, f \in HeaderFills}

BlockHashes == {Bytes32(1), Bytes32(2)}

Payloads == {<<>>, <<1, 2, 3>>}

\* what the wrapped capabilities may answer
GetBlobsOutcomes ==
    {[err |-> Some(c)] : c \in {"context canceled", "blob not found"}}
        \cup {[err |-> None]}

DecodeFailed == [err |-> Some("decode failed"), payload |-> None]

DecodeOutcomes ==
    {DecodeFailed} \cup {[err |-> None, payload |-> Some(p)] : p \in Payloads}

\* the answers one blob recovery may meet: DecodeBlobs is only consulted
\* after a successful fetch
BlobOutcomes ==
    {[g |-> g, d |-> d] : g \in GetBlobsOutcomes, d \in DecodeOutcomes}
        \ {[g |-> g, d |-> d] :
               g \in {x \in GetBlobsOutcomes : x.err # None},
               d \in DecodeOutcomes \ {DecodeFailed}}

DasOutcomes ==
    {[err |-> Some("das recovery failed")], [err |-> None]}

\* the messages handed to the DAS adapter (their layout is the DAS module's)
DasMessages == {Fill(HeaderLen, f) : f \in HeaderFills}

\* BlobReader.GetBlobs: one blob per requested hash, or an error
BlobReader_GetBlobs(blockHash, versionedHashes, outcome) ==
    IF outcome.err # None
    THEN [blobs |-> <<>>, err |-> outcome.err]
    ELSE [blobs |-> [j \in 1..Len(versionedHashes) |->
                        <<"blob", blockHash, versionedHashes[j]>>],
          err |-> None]

\* blobs.DecodeBlobs: the payload, or an error
blobs_DecodeBlobs(kzgBlobs, outcome) == outcome

Returned(payload, err, gets, decs, pm) ==
    [panicked |-> FALSE, payload |-> payload, err |-> err,
     getBlobsCalls |-> gets, decodeCalls |-> decs, preimages |-> pm]

\* a Go run-time panic: the call does not return
Panicked(pm) ==
    [panicked |-> TRUE, payload |-> None, err |-> None,
     getBlobsCalls |-> <<>>, decodeCalls |-> <<>>, preimages |-> pm]

\* mutant of blobHashesOf: the header is taken to be 40 bytes
blobHashesOf_off40(msg) == SubSeq(msg, HeaderLen, Len(msg))

\* sequencerMsg[41:], for a message that has 41 bytes
blobHashesOf(msg) == SubSeq(msg, HeaderLen + 1, Len(msg))

\* mutant of isHashList: the length is not checked
isHashList_unchecked(blobHashes) == TRUE

isHashList(blobHashes) == Len(blobHashes) % HashLen = 0

\* the copy loop filling versionedHashes
versionedHashesOf(blobHashes) ==
    [i \in 1..(Len(blobHashes) \div HashLen) |->
        SubSeq(blobHashes, (i - 1) * 32 + 1, i * 32)]

\* mutant of onDecodeError: the decode error is propagated
onDecodeError_hard(err, gets, decs, pm) ==
    Returned(None, Some([text |-> "failed to decode blobs: %w", cause |-> err]),
             gets, decs, pm)

\* a decode failure is logged and reported as (nil, nil)
onDecodeError(err, gets, decs, pm) == Returned(None, None, gets, decs, pm)

readerForBlobReader_RecoverPayloadFromBatch(msg, blockHash, pm, g, d) ==
    IF Len(msg) < HeaderLen
    THEN Panicked(pm)
    ELSE
    LET blobHashes == blobHashesOf(msg) IN
    IF ~isHashList(blobHashes)
    THEN Returned(None, Some([text |-> FormatErrText, cause |-> None]),
                  <<>>, <<>>, pm)
    ELSE
    LET versionedHashes == versionedHashesOf(blobHashes)
        got  == BlobReader_GetBlobs(blockHash, versionedHashes, g)
        gets == <<[blockHash |-> blockHash,
                   versionedHashes |-> versionedHashes,
                   err |-> got.err]>>
    IN
    IF got.err # None
    THEN Returned(None, Some([text |-> GetBlobsErrText, cause |-> got.err]),
                  gets, <<>>, pm)
    ELSE
    LET dec  == blobs_DecodeBlobs(got.blobs, d)
        decs == <<[kzgBlobs |-> got.blobs, payload |-> dec.payload,
                   err |-> dec.err]>>
    IN
    IF dec.err # None
    THEN onDecodeError(dec.err, gets, decs, pm)
    ELSE Returned(dec.payload, None, gets, decs, pm)

\* the content the DAS committee holds, and its hash
DasPayload == <<4, 5, 6>>
DasHash    == Pattern(3)

\* RecoverPayloadFromDasBatch of the sibling DAS module
RecoverPayloadFromDasBatch(msg, pm, outcome) ==
    IF outcome.err # None
    THEN Returned(None, Some([text |-> "das", cause |-> outcome.err]),
                  <<>>, <<>>, pm)
    ELSE Returned(Some(DasPayload), None, <<>>, <<>>,
                  pm \cup {[ty |-> "Keccak256", hash |-> DasHash,
                            content |-> DasPayload]})

readerForDAS_RecoverPayloadFromBatch(msg, pm, outcome) ==
    RecoverPayloadFromDasBatch(msg, pm, outcome)

\* bookkeeping shared by the two adapters' calls
Called(name, msg, blockHash, r) ==
    /\ adapter' = name
    /\ sequencerMsg' = msg
    /\ batchBlockHash' = blockHash
    /\ preimagesBefore' = preimages
    /\ preimages' = r.preimages
    /\ getBlobsCalls' = r.getBlobsCalls
    /\ decodeCalls' = r.decodeCalls
    /\ result' = Some([panicked |-> r.panicked, payload |-> r.payload,
                       err |-> r.err])

RecoverBlob ==
    \E msg \in Messages, blockHash \in BlockHashes, o \in BlobOutcomes :
        Called("blob", msg, blockHash,
               readerForBlobReader_RecoverPayloadFromBatch(
                   msg, blockHash, preimages, o.g, o.d))

RecoverDAS ==
    \E msg \in DasMessages, blockHash \in BlockHashes, o \in DasOutcomes :
        Called("das", msg, blockHash,
               readerForDAS_RecoverPayloadFromBatch(msg, preimages, o))

(***************************************************************************)
(* Specifications: one per component; the other component stays idle.      *)
(***************************************************************************)
IdleReader ==
    /\ adapter = "none"
    /\ sequencerMsg = <<>>
    /\ batchBlockHash = Bytes32(0)
    /\ preimages = {}
    /\ preimagesBefore = {}
    /\ getBlobsCalls = <<>>
    /\ decodeCalls = <<>>
    /\ result = None

IdleStack ==
    /\ stack = NoCall.pre
    /\ status = "ok"
    /\ op = "none"
    /\ arg = None
    /\ ret = None
    /\ pre = NoCall.pre
    /\ prev = NoCall

InitStack == InitStackVars /\ IdleReader

NextStack ==
    \/ Hash /\ UNCHANGED readerVars
    \/ Peek /\ UNCHANGED readerVars
    \/ Pop /\ UNCHANGED readerVars
    \/ Push /\ UNCHANGED readerVars
    \/ IsEmpty /\ UNCHANGED readerVars
    \/ HasProvenDepthLessThan /\ UNCHANGED readerVars

SpecStack == InitStack /\ [][NextStack]_vars

InitReader == IdleStack /\ IdleReader

NextReader ==
    \/ RecoverBlob /\ UNCHANGED stackVars
    \/ RecoverDAS /\ UNCHANGED stackVars

SpecReader == InitReader /\ [][NextReader]_vars

(***************************************************************************)
(* Properties of ValueStackLib (checked under SpecStack)                   *)
(***************************************************************************)
FoldStep(v, acc) == <<"keccak256", "Value stack:", ValueHash(v), acc>>

RECURSIVE Fold(_, _)
\* Fold(..Fold(Fold(R, proved[0]), proved[1])..., proved[n-1]), unfolded
\* from the outermost step
Fold(proved, R) ==
    IF proved = <<>>
    THEN R
    ELSE FoldStep(proved[Len(proved)],
                  Fold(SubSeq(proved, 1, Len(proved) - 1), R))

\* C1: hash(stack) is the left fold that starts at remainingHash and folds
\* proved[0], ..., proved[n-1] in ascending order with
\* Hash("Value stack:" || ValueHash(proved[i]) || h); for n = 0 it is
\* remainingHash itself; hash leaves the stack as it was.
C1_HashIsLeftFold ==
    op = "hash" =>
        /\ status = "ok"
        /\ ret = Some(Fold(pre.proved, pre.remainingHash))
        /\ (pre.proved = <<>> => ret = Some(pre.remainingHash))
        /\ stack = pre

C1_Witness ==
    /\ op = "hash"
    /\ Len(pre.proved) >= 2
    /\ pre.proved[1] # pre.proved[2]
    /\ pre.remainingHash # Bytes32(0)

\* C2: peek or pop on a stack with no revealed element aborts the call:
\* nothing is returned, whatever remainingHash is, and the stack is not
\* altered; otherwise peek returns the last element and leaves the stack
\* alone, and pop returns the last element and shortens proved by one.
C2_PeekPopEmptyFatal ==
    /\ op \in {"peek", "pop"} =>
          IF pre.proved = <<>>
          THEN status = "reverted" /\ ret = None /\ stack = pre
          ELSE /\ status = "ok"
               /\ ret = Some(pre.proved[Len(pre.proved)])
               /\ op = "peek" => stack = pre
               /\ op = "pop" =>
                     /\ Len(stack.proved) = Len(pre.proved) - 1
                     /\ stack.proved = SubSeq(pre.proved, 1, Len(pre.proved) - 1)
                     /\ stack.remainingHash = pre.remainingHash
    /\ status = "reverted" => op \in {"peek", "pop"} /\ pre.proved = <<>>

C2_Witness ==
    /\ op = "peek"
    /\ pre.proved = <<>>
    /\ pre.remainingHash # Bytes32(0)
    /\ status = "reverted"

\* C8: hasProvenDepthLessThan(stack, bound) is true iff remainingHash is the
\* zero sentinel and length(proved) < bound; so it is false for every stack
\* with a non-zero remainder and for every stack when bound = 0.
C8_DepthBound ==
    op = "hasProvenDepthLessThan" =>
        \A bound \in arg :
            /\ ret \in {Some(TRUE), Some(FALSE)}
            /\ (ret = Some(TRUE)) <=>
                  (pre.remainingHash = Bytes32(0) /\ Len(pre.proved) < bound)
            /\ pre.remainingHash # Bytes32(0) => ret = Some(FALSE)
            /\ bound = 0 => ret = Some(FALSE)
            /\ stack = pre

C8_Witness ==
    /\ op = "hasProvenDepthLessThan"
    /\ arg = Some(2)
    /\ Len(pre.proved) = 1
    /\ pre.remainingHash # Bytes32(0)
    /\ ret = Some(FALSE)

\* C9: push(stack, V) followed by pop returns V and restores proved to its
\* contents before the push; push does not fail; neither push nor pop
\* changes remainingHash.
C9_PushPopRoundTrip ==
    /\ (op = "pop" /\ prev.op = "push") =>
          /\ status = "ok"
          /\ ret = prev.arg
          /\ stack.proved = prev.pre.proved
          /\ stack.remainingHash = prev.pre.remainingHash
    /\ op = "push" =>
          /\ status = "ok"
          /\ \A v \in arg : stack.proved = pre.proved \o <<v>>
          /\ stack.remainingHash = pre.remainingHash
    /\ op = "pop" => stack.remainingHash = pre.remainingHash

C9_Witness ==
    /\ op = "pop"
    /\ prev.op = "push"
    /\ prev.pre.proved = <<>>
    /\ stack.proved = <<>>
    /\ ret # None

\* C10: hash after push(s, V) is Hash("Value stack:" || ValueHash(V) ||
\* hash(s)); a stack with proved = [a] ++ rest over remainder R has the hash
\* of the stack with proved = rest over remainder
\* Hash("Value stack:" || ValueHash(a) || R); and the hash after pop followed
\* by push of the popped value is the hash before.
C10_HashComposesWithPush ==
    /\ op = "push" =>
          \A v \in arg : hash(stack) = FoldStep(v, hash(pre))
    /\ stack.proved # <<>> =>
          hash(stack) =
              hash([proved |-> Tail(stack.proved),
                    remainingHash |->
                        FoldStep(Head(stack.proved), stack.remainingHash)])
    /\ (op = "push" /\ prev.op = "pop" /\ arg = prev.ret) =>
          hash(stack) = hash(prev.pre)

C10_Witness ==
    /\ op = "push"
    /\ prev.op = "pop"
    /\ arg = prev.ret
    /\ Len(stack.proved) >= 2
    /\ stack.remainingHash # Bytes32(0)

(***************************************************************************)
(* Properties of the Reader adapters (checked under SpecReader)            *)
(***************************************************************************)
Returns(payload, err) ==
    result = Some([panicked |-> FALSE, payload |-> payload, err |-> err])

\* C3: every call of the blob-backed RecoverPayloadFromBatch, for a message
\* of any length, ends with a payload and no error, with an error and no
\* payload, or with neither (the soft miss), and in no other way.
C3_ThreeOutcomes ==
    adapter = "blob" =>
        \E r \in result :
            /\ ~r.panicked
            /\ \/ r.payload # None /\ r.err = None
               \/ r.payload = None /\ r.err # None
               \/ r.payload = None /\ r.err = None

\* C4: when the bytes after the 41-byte header are not a multiple of 32, the
\* blob-backed call fails with the format error, returns no payload and
\* never invokes GetBlobs.
C4_FormatErrorBeforeFetch ==
    (/\ adapter = "blob"
     /\ Len(sequencerMsg) >= 41
     /\ (Len(sequencerMsg) - 41) % 32 # 0) =>
        /\ Returns(None, Some([text |-> FormatErrText, cause |-> None]))
        /\ getBlobsCalls = <<>>
        /\ decodeCalls = <<>>

C4_Witness ==
    /\ adapter = "blob"
    /\ Len(sequencerMsg) = 41 + 10
    /\ result # None

\* C5: for a message of 41 + 32*k bytes GetBlobs is handed the caller's
\* block hash and exactly k versioned hashes, the j-th being message bytes
\* [41 + 32*j, 41 + 32*(j+1)) in their original order.
C5_VersionedHashesVerbatim ==
    (/\ adapter = "blob"
     /\ Len(sequencerMsg) >= 41
     /\ (Len(sequencerMsg) - 41) % 32 = 0) =>
        LET k == (Len(sequencerMsg) - 41) \div 32 IN
        /\ Len(getBlobsCalls) = 1
        /\ getBlobsCalls[1].blockHash = batchBlockHash
        /\ Len(getBlobsCalls[1].versionedHashes) = k
        /\ \A j \in 0..(k - 1) :
              getBlobsCalls[1].versionedHashes[j + 1] =
                  [i \in 1..32 |-> sequencerMsg[41 + 32 * j + i]]

C5_Witness ==
    /\ adapter = "blob"
    /\ Len(sequencerMsg) = 41 + 64
    /\ Len(getBlobsCalls) = 1
    /\ getBlobsCalls[1].versionedHashes = <<Pattern(1), Pattern(2)>>
    /\ sequencerMsg[1] = 255

\* C6: a decode failure after a successful fetch ends the blob-backed call
\* with no payload and no error; a malformed hash list and a failed fetch
\* end it with an error (the latter wrapping the cause in "failed to get
\* blobs: ..."); a decode success returns the decoded payload and no error.
C6_SoftMissOnDecodeFailure ==
    adapter = "blob" =>
        /\ (decodeCalls # <<>> /\ decodeCalls[1].err # None) =>
              Returns(None, None)
        /\ (decodeCalls # <<>> /\ decodeCalls[1].err = None) =>
              /\ decodeCalls[1].payload # None
              /\ Returns(decodeCalls[1].payload, None)
        /\ (getBlobsCalls # <<>> /\ getBlobsCalls[1].err # None) =>
              /\ Returns(None, Some([text |-> GetBlobsErrText,
                                     cause |-> getBlobsCalls[1].err]))
              /\ decodeCalls = <<>>
        /\ (Len(sequencerMsg) >= 41 /\ getBlobsCalls = <<>>) =>
              \E r \in result : ~r.panicked /\ r.payload = None /\ r.err # None
        /\ Returns(None, None) =>
              (decodeCalls # <<>> /\ decodeCalls[1].err # None)

C6_Witness ==
    /\ adapter = "blob"
    /\ getBlobsCalls # <<>>
    /\ getBlobsCalls[1].err = None
    /\ decodeCalls # <<>>
    /\ decodeCalls[1].err # None
    /\ Len(sequencerMsg) = 41 + 32

\* the versioned hashes a blob message names
NamedHashes(msg) ==
    {[i \in 1..32 |-> msg[41 + 32 * j + i]] :
        j \in 0..(((Len(msg) - 41) \div 32) - 1)}

\* C7: whenever RecoverPayloadFromBatch of either adapter returns a payload
\* and no error, the preimages map holds an entry for every hash resolved
\* during that recovery; no call removes an entry.
C7_PreimagesRecorded ==
    adapter \in {"blob", "das"} =>
        /\ preimagesBefore \subseteq preimages
        /\ \A r \in result :
              (~r.panicked /\ r.payload # None /\ r.err = None) =>
                  /\ adapter = "das" => \E e \in preimages : e.hash = DasHash
                  /\ adapter = "blob" =>
                        \A h \in NamedHashes(sequencerMsg) :
                            \E e \in preimages : e.hash = h
====
